---- MODULE Spec2Model ----
(***************************************************************************)
(* Replay orchestration of grafika_differ: AutomationRunner.run and        *)
(* AutomationRunner.run_stealth (src/src/core/automation_runner.py).       *)
(* Time is counted in milliseconds.  File names are sequences of ASCII     *)
(* codes so that their lexicographic order can be compared.                *)
(***************************************************************************)
EXTENDS Integers, Sequences, FiniteSets, TLC

(***************************************************************************)
(* Bounds of the model.                                                    *)
(***************************************************************************)
MaxEvents == 2
MaxIndex == 1000
MaxLines == 3

(***************************************************************************)
(* Program constants.                                                      *)
(***************************************************************************)
WindowPollMs == 200
ExitPollMs == 100
GraceMs == 5000
IndexWidth == 3
MillisWidth == 7

(***************************************************************************)
(* Text: str.format of integers, re.sub and str.strip on code sequences.   *)
(***************************************************************************)
RECURSIVE Digits(_)
Digits(n) ==
    IF n < 10 THEN <<48 + n>> ELSE Digits(n \div 10) \o <<48 + (n % 10)>>

\* f"{n:0{w}d}" for n >= 0: zero padded to at least w characters
ZeroPad(n, w) ==
    LET d == Digits(n)
    IN  IF Len(d) >= w THEN d ELSE [k \in 1..(w - Len(d)) |-> 48] \o d

\* the class [A-Za-z0-9_]
IsWordChar(c) ==
    \/ c \in 65..90
    \/ c \in 97..122
    \/ c \in 48..57
    \/ c = 95

\* re.sub(r"[^A-Za-z0-9_]+", "_", s): every maximal run becomes one "_"
RECURSIVE SubNonWord(_, _)
SubNonWord(s, inRun) ==
    IF s = <<>> THEN <<>>
    ELSE IF IsWordChar(Head(s)) THEN <<Head(s)>> \o SubNonWord(Tail(s), FALSE)
    ELSE IF inRun THEN SubNonWord(Tail(s), TRUE)
    ELSE <<95>> \o SubNonWord(Tail(s), TRUE)

RECURSIVE LStrip(_)
LStrip(s) ==
    IF s # <<>> /\ Head(s) = 95 THEN LStrip(Tail(s)) ELSE s

RECURSIVE RStrip(_)
RStrip(s) ==
    IF s # <<>> /\ s[Len(s)] = 95 THEN RStrip(SubSeq(s, 1, Len(s) - 1)) ELSE s

\* .strip("_")
Strip(s) == RStrip(LStrip(s))

\* lexicographic order of two code sequences (str.__lt__)
RECURSIVE LexLess(_, _)
LexLess(a, b) ==
    IF b = <<>> THEN FALSE
    ELSE IF a = <<>> THEN TRUE
    ELSE IF Head(a) # Head(b) THEN Head(a) < Head(b)
    ELSE LexLess(Tail(a), Tail(b))

(***************************************************************************)
(* Events (src/src/core/event_types.py).                                   *)
(***************************************************************************)
NoButton == ""
NoPoint == <<>>

ActionText(action) ==
    CASE action = "mouse_press" ->
            <<109, 111, 117, 115, 101, 95, 112, 114, 101, 115, 115>>
      [] action = "mouse_release" ->
            <<109, 111, 117, 115, 101, 95, 114, 101, 108, 101, 97, 115, 101>>
      [] action = "key_press" -> <<107, 101, 121, 95, 112, 114, 101, 115, 115>>
      [] action = "key_release" ->
            <<107, 101, 121, 95, 114, 101, 108, 101, 97, 115, 101>>
      [] action = "exit" -> <<101, 120, 105, 116>>
      [] OTHER -> <<115, 99, 114, 111, 108, 108>>    \* "scroll"

ButtonText(button) ==
    CASE button = "left" -> <<108, 101, 102, 116>>
      [] button = "right" -> <<114, 105, 103, 104, 116>>
      [] button = "W" -> <<87>>
      [] OTHER -> <<>>

\* Event.label()
EventLabel(e) ==
    IF e.button # NoButton
    THEN ActionText(e.action) \o <<95>> \o ButtonText(e.button)
    ELSE ActionText(e.action)

\* the events a transcript line can stand for, before index and order
EventKinds ==
    { [action |-> "mouse_press", button |-> "left", window_point |-> <<10, 20>>,
       timestamp |-> 1000, delta |-> 40],
      [action |-> "mouse_release", button |-> NoButton,
       window_point |-> NoPoint, timestamp |-> 1000, delta |-> 0],
      [action |-> "key_press", button |-> "W", window_point |-> NoPoint,
       timestamp |-> 1500, delta |-> 40],
      [action |-> "key_release", button |-> "W", window_point |-> NoPoint,
       timestamp |-> 1540, delta |-> 40],
      [action |-> "exit", button |-> NoButton, window_point |-> NoPoint,
       timestamp |-> 2000, delta |-> 40],
      [action |-> "scroll", button |-> NoButton, window_point |-> NoPoint,
       timestamp |-> 2000, delta |-> 0] }

\* Event(index=k, ...): the parser numbers events densely from 0
WithIndex(kinds) ==
    [k \in 1..Len(kinds) |->
        [index |-> k - 1, timestamp |-> kinds[k].timestamp,
         delta |-> kinds[k].delta, action |-> kinds[k].action,
         button |-> kinds[k].button, window_point |-> kinds[k].window_point]]

\* the event the iterable yields after the events in done
Yielded(done, kind) == WithIndex(Append(done, kind))[Len(done) + 1]

(***************************************************************************)
(* Configuration (AutomationConfig) and the inputs of a call.              *)
(***************************************************************************)
BaseConfig ==
    [exe_exists |-> TRUE, window_title |-> TRUE, launch_wait |-> 1500,
     window_timeout |-> 400, exit_timeout |-> 200, pointer_duration |-> 0,
     capture_delay |-> 5]

Configs ==
    { BaseConfig,
      [BaseConfig EXCEPT !.exe_exists = FALSE],
      [BaseConfig EXCEPT !.window_title = FALSE],
      [BaseConfig EXCEPT !.window_timeout = 0],
      [BaseConfig EXCEPT !.exit_timeout = 0],
      [BaseConfig EXCEPT !.pointer_duration = 250],
      [BaseConfig EXCEPT !.capture_delay = 0] }

\* (delta_ms, length_ms) of run_stealth
StealthArgs ==
    { [delta_ms |-> 50, length_ms |-> 200],
      [delta_ms |-> 10, length_ms |-> 40],
      [delta_ms |-> 0, length_ms |-> 2],
      [delta_ms |-> 50, length_ms |-> -100] }

NoArgs == [delta_ms |-> 0, length_ms |-> 0]

\* time one capture call may take
CaptureLatencies == {0, 20}

(***************************************************************************)
(* Transcript lines and ScriptParser (src/src/core/event_parser.py).       *)
(* A line is kept as the parts the regular expressions of the parser look  *)
(* at; seconds are counted in ms.                                          *)
(***************************************************************************)
\* a body: its first word, the state and the button or key written after
\* it, the window(x,y) and world(x,y) it contains, and whether the phrase
\* "exiting application" occurs in it in any case
NoBody ==
    [head |-> "", state |-> "", button |-> "", window |-> NoPoint,
     world |-> NoPoint, phrase |-> FALSE]

\* the empty string
EmptyLine == [stamp |-> "", seconds |-> 0, body |-> NoBody]

MouseBody(state, button, point, phrase) ==
    [head |-> "onMouse", state |-> state, button |-> button, window |-> point,
     world |-> NoPoint, phrase |-> phrase]

KeyBody(state, key) ==
    [head |-> "onKey", state |-> state, button |-> key, window |-> NoPoint,
     world |-> NoPoint, phrase |-> FALSE]

TextBody(phrase) ==
    [head |-> "text", state |-> "", button |-> "", window |-> NoPoint,
     world |-> NoPoint, phrase |-> phrase]

\* the body with "window(x,y) -> world(x,y)" among its details
WithPoints(body, point, world) ==
    [body EXCEPT !.window = point, !.world = world]

\* "[ +<seconds>s ] <body>"
Stamped(ms, body) == [stamp |-> "ok", seconds |-> ms, body |-> body]

\* a line as written in the file: the text and the white space around it
Raw(pad, text) == [pad |-> pad, text |-> text]

\* declared timestamps, in ms
Stamps == {500, 800, 1000}

\* the lines a transcript is made of
TranscriptLines ==
    \* "[ +1.000s ] onMousePressed L: window(10,10)", also at 0.5 and 0.8
    { Raw(FALSE, Stamped(t, MouseBody("Pressed", "L", <<10, 10>>, FALSE))) :
        t \in Stamps }
    \cup
    { \* "  [ +0.500s ] onmousereleased r: up  "
      Raw(TRUE, Stamped(500, MouseBody("released", "r", NoPoint, FALSE))),
      \* "[ +0.800s ] onKeyPressed W: forward"
      Raw(FALSE, Stamped(800, KeyBody("Pressed", "W"))),
      \* "[ +1.000s ] onKeyReleased 1: one"
      Raw(FALSE, Stamped(1000, KeyBody("Released", "1"))),
      \* "[ +1.000s ] Exiting application"
      Raw(FALSE, Stamped(1000, TextBody(TRUE))),
      \* "" and "   "
      Raw(FALSE, EmptyLine),
      Raw(TRUE, EmptyLine),
      \* "This is not a valid event line"
      Raw(FALSE, [stamp |-> "", seconds |-> 0, body |-> TextBody(FALSE)]),
      \* "[ invalid timestamp format ] onMousePressed L: test"
      Raw(FALSE, [stamp |-> "bad", seconds |-> 0,
                  body |-> MouseBody("Pressed", "L", NoPoint, FALSE)]),
      \* "[ +0.500s ] unsupported event type: test"
      Raw(FALSE, Stamped(500, TextBody(FALSE))),
      \* "[ +0.500s ]"
      Raw(FALSE, Stamped(500, NoBody)),
      \* "[ +0.500s ] onMousePressed M: window(10,10)"
      Raw(FALSE, Stamped(500, MouseBody("Pressed", "M", <<10, 10>>, FALSE))),
      \* "[ +0.500s ] onMousePressed M: exiting application"
      Raw(FALSE, Stamped(500, MouseBody("Pressed", "M", NoPoint, TRUE))),
      \* "[ +0.500s ] onKeyPressed AB: two letters"
      Raw(FALSE, Stamped(500, KeyBody("Pressed", "AB"))),
      \* "[ +0.800s ] onKeyReleased w: window(10,10) -> world(-16,16)"
      Raw(FALSE, Stamped(800, WithPoints(KeyBody("Released", "w"),
                                         <<10, 10>>, <<-16, 16>>))),
      \* "[ +0.500s ] onKeyPressed ;: semicolon"
      Raw(FALSE, Stamped(500, KeyBody("Pressed", ";"))) }

\* str.strip()
StripLine(raw_line) == raw_line.text

\* str.upper() and str.lower() on the words the parser compares
Upper(word) ==
    CASE word = "l" -> "L"
      [] word = "r" -> "R"
      [] OTHER -> word

Lower(word) ==
    CASE word = "Pressed" -> "pressed"
      [] word = "Released" -> "released"
      [] OTHER -> word

\* DELTA_RE.match(line): the stamp and a body of at least one character
DeltaMatch(line) == line.stamp = "ok" /\ line.body # NoBody

\* MOUSE_RE.match(body), case ignored: Pressed|Released, one of [LR]
MouseMatch(body) ==
    /\ body.head = "onMouse"
    /\ Lower(body.state) \in {"pressed", "released"}
    /\ Upper(body.button) \in {"L", "R"}

\* the keys of TranscriptLines that are one character of [A-Z0-9], case
\* ignored
KeyChars == {"W", "w", "1"}

\* KEY_RE.match(body), case ignored: Pressed|Released, one of [A-Z0-9]
KeyMatch(body) ==
    /\ body.head = "onKey"
    /\ Lower(body.state) \in {"pressed", "released"}
    /\ body.button \in KeyChars

NoMessage == [text |-> "", line |-> EmptyLine]

NoEvent ==
    [index |-> 0, timestamp |-> 0, delta |-> 0, action |-> "",
     button |-> NoButton, window_point |-> NoPoint, world_point |-> NoPoint,
     raw |-> EmptyLine]

Parsed(e) == [raised |-> FALSE, event |-> e, message |-> NoMessage]

Failed(text, line) ==
    [raised |-> TRUE, event |-> NoEvent,
     message |-> [text |-> text, line |-> line]]

\* mutant: a key event takes the coordinates of its details, as a mouse
\* event does
KeyPointsParsed(details) == [window |-> details.window, world |-> details.world]

\* window_point=None, world_point=None of a key event
KeyPoints(details) == [window |-> NoPoint, world |-> NoPoint]

\* mutant: the key is stored in upper case, as the mouse button is compared
KeyOfUpper(body) == IF body.button = "w" THEN "W" ELSE body.button

\* key_match.group("key")
KeyOf(body) == body.button

\* _parse_line(line, event_index)
ParseLineOf(line, event_index) ==
    IF ~DeltaMatch(line)
    THEN Failed("Could not parse timestamp in line", line)
    ELSE LET timestamp == line.seconds
             body == line.body
         IN  IF MouseMatch(body)
             THEN LET state == Lower(body.state)
                      button == Upper(body.button)
                  IN  Parsed([index |-> event_index,
                              timestamp |-> timestamp,
                              delta |-> 0,
                              action |-> IF state = "pressed"
                                         THEN "mouse_press"
                                         ELSE "mouse_release",
                              button |-> IF button = "L" THEN "left"
                                         ELSE "right",
                              window_point |-> body.window,
                              world_point |-> body.world,
                              raw |-> line])
             ELSE IF KeyMatch(body)
             THEN Parsed([index |-> event_index,
                          timestamp |-> timestamp,
                          delta |-> 0,
                          action |-> IF Lower(body.state) = "pressed"
                                     THEN "key_press" ELSE "key_release",
                          button |-> KeyOf(body),
                          window_point |-> KeyPoints(body).window,
                          world_point |-> KeyPoints(body).world,
                          raw |-> line])
             ELSE IF body.phrase
             THEN Parsed([index |-> event_index,
                          timestamp |-> timestamp,
                          delta |-> 0,
                          action |-> "exit",
                          button |-> NoButton,
                          window_point |-> NoPoint,
                          world_point |-> NoPoint,
                          raw |-> line])
             ELSE Failed("Unsupported event line", line)

\* mutant: the reference point is the largest timestamp seen so far
RECURSIVE AssignDeltasRunningMax(_, _)
AssignDeltasRunningMax(evs, prev_timestamp) ==
    IF evs = <<>> THEN <<>>
    ELSE LET e == Head(evs)
             delta == e.timestamp - prev_timestamp
         IN  <<[e EXCEPT !.delta = IF delta < 0 THEN 0 ELSE delta]>>
               \o AssignDeltasRunningMax(Tail(evs),
                    IF e.timestamp > prev_timestamp THEN e.timestamp
                    ELSE prev_timestamp)

\* mutant: a negative difference is kept
RECURSIVE AssignDeltasUnclamped(_, _)
AssignDeltasUnclamped(evs, prev_timestamp) ==
    IF evs = <<>> THEN <<>>
    ELSE LET e == Head(evs)
             delta == e.timestamp - prev_timestamp
         IN  <<[e EXCEPT !.delta = delta]>>
               \o AssignDeltasUnclamped(Tail(evs), e.timestamp)

\* _assign_deltas: the loop over the events from prev_timestamp on
RECURSIVE AssignDeltas(_, _)
AssignDeltas(evs, prev_timestamp) ==
    IF evs = <<>> THEN <<>>
    ELSE LET e == Head(evs)
             delta == e.timestamp - prev_timestamp
         IN  <<[e EXCEPT !.delta = IF delta < 0 THEN 0 ELSE delta]>>
               \o AssignDeltas(Tail(evs), e.timestamp)

\* parse has not returned
NoResult == [done |-> FALSE, events |-> <<>>]

(***************************************************************************)
(* State.                                                                  *)
(***************************************************************************)
VARIABLES
    IS_LINUX,        \* platform flag
    config,          \* AutomationConfig
    mode,            \* "run" or "run_stealth"
    total,           \* number of events in the iterable handed to run
    events,          \* the events the iterable has yielded so far
    stealth,         \* the arguments handed to run_stealth
    pc,              \* position of the runner
    event,           \* position of the for loop over events (1-based), 0 before
    now,             \* time.time() in ms
    deadline,        \* deadline of the wait in progress
    window,          \* window handle, 0 for none
    process,         \* "none", "running", "exited", "terminated", "killed"
    capture_index,  \* AutomationRunner.capture_index
    path,            \* file name computed for the capture in progress
    paths,           \* the last two file names handed out
    tiers,           \* tier attempts of the capture request of this phase
    lookup,          \* outcome of the latest window lookup
    log,             \* backend calls and sleeps of the current phase: one
                     \* poll, the Ready steps, one event, one stealth tick,
                     \* the wait for exit, the cleanup
    pending,         \* exception in flight, "none" when there is none
    interrupted,     \* the user interrupt has been delivered
    start, end_time, interval, next_ts,  \* locals of the stealth loop
    lines,           \* the transcript handed to ScriptParser.parse
    idx,             \* number of transcript lines parse has read
    returned,        \* what parse returned to its caller, if it did
    message          \* text of the error parse raised, if it did

vars ==
    <<IS_LINUX, config, mode, total, events, stealth, pc, event, now, deadline,
      window, process, capture_index, path, paths, tiers, lookup, log,
      pending, interrupted, start, end_time, interval, next_ts, lines, idx,
      returned, message>>

\* the state of the parser, which the runner does not touch
parserState == <<lines, idx, returned, message>>

\* what a call of run or run_stealth is handed and leaves as it is
inputs == <<IS_LINUX, config, mode, total, stealth, parserState>>
stealthLocals == <<start, end_time, interval, next_ts>>

Max(a, b) == IF a >= b THEN a ELSE b

Entry(op, arg, ok) == [op |-> op, ev |-> event, arg |-> arg, ok |-> ok]

\* time.sleep(ms)
Sleep(ms) ==
    /\ now' = now + ms
    /\ log' = Append(log, Entry("sleep", <<ms>>, TRUE))

\* time.sleep(ms) as the first call of a phase
FirstSleep(ms) ==
    /\ now' = now + ms
    /\ log' = <<Entry("sleep", <<ms>>, TRUE)>>

NoLookup == [window |-> 0, focused |-> FALSE, raised |-> FALSE]

Init ==
    /\ IS_LINUX \in BOOLEAN
    /\ config \in Configs
    /\ \/ mode = "run" /\ total \in 0..MaxEvents /\ stealth = NoArgs
       \/ mode = "run_stealth" /\ total = 0 /\ stealth \in StealthArgs
    /\ events = <<>>
    /\ pc = "start"
    /\ event = 0
    /\ now = 0
    /\ deadline = 0
    /\ window = 0
    /\ process = "none"
    /\ capture_index = 0
    /\ path = <<>>
    /\ paths = <<>>
    /\ tiers = <<>>
    /\ lookup = NoLookup
    /\ log = <<>>
    /\ pending = "none"
    /\ interrupted = FALSE
    /\ start = 0 /\ end_time = 0 /\ interval = 0 /\ next_ts = 0
    /\ lines = <<>>
    /\ idx = 0
    /\ returned = NoResult
    /\ message = NoMessage

(***************************************************************************)
(* Exceptions.                                                             *)
(***************************************************************************)
\* mutant: a bare "except:" in the discovery loop
RetryCatchesAll(exc) == TRUE

\* "except Exception" of the discovery loops: KeyboardInterrupt is not an
\* Exception and passes through
RetryCatches(exc) == exc # "KeyboardInterrupt"

\* mutant: the body is not guarded by try ... finally
UnwindNoFinally(exc) == [pc |-> "done", pending |-> exc]

\* try ... finally of run and run_stealth: an exception raised in the body
\* goes to the cleanup step and is re-raised after it
Unwind(exc) == [pc |-> "cleanup", pending |-> exc]

Raise(exc) ==
    /\ pc' = Unwind(exc).pc
    /\ pending' = Unwind(exc).pending

(***************************************************************************)
(* Launching.                                                              *)
(***************************************************************************)
\* mutant: Popen without the exists() check
LaunchUnchecked ==
    /\ pc = "start"
    /\ process' = "running"
    /\ deadline' = now + config.window_timeout
    /\ pc' = "wait_window"
    /\ UNCHANGED <<inputs, events, lookup, event, now, window, capture_index,
                   path, paths, tiers, log, pending, interrupted,
                   stealthLocals>>

\* exists() check, Popen, and the deadline of the window wait
Launch ==
    /\ pc = "start"
    /\ IF ~config.exe_exists
       THEN /\ pending' = "FileNotFoundError"
            /\ pc' = "done"
            /\ UNCHANGED <<process, deadline>>
       ELSE /\ process' = "running"
            /\ deadline' = now + config.window_timeout
            /\ pc' = "wait_window"
            /\ UNCHANGED pending
    /\ UNCHANGED <<inputs, events, lookup, event, now, window, capture_index,
                   path, paths, tiers, log, interrupted, stealthLocals>>

(***************************************************************************)
(* AwaitingWindow.                                                         *)
(***************************************************************************)
\* the lookup chain of _wait_for_window_linux; 0 is "no window"
LinuxLookup(byTitle, byProcess, anyVisible) ==
    LET w1 == IF config.window_title THEN byTitle ELSE 0
        w2 == IF w1 = 0 THEN byProcess ELSE w1
    IN  IF w2 = 0 /\ ~config.window_title THEN anyVisible ELSE w2

\* connect, window lookup and wrapper_object of _wait_for_window_windows
WindowsLookup(connected, found) == IF connected THEN found ELSE 0

\* mutant: the window is returned without regard to the focus request
WindowReadyUnfocused(w, focus) == w # 0

\* a window was found and focus_window / set_focus succeeded
WindowReady(w, focus) == w # 0 /\ focus

\* one iteration of the discovery loop
PollWindow ==
    /\ pc = "wait_window"
    /\ IF now >= deadline
       THEN /\ Raise("TimeoutError")
            /\ UNCHANGED <<now, window, lookup, log>>
       ELSE \E byTitle \in {0, 1}, byProcess \in {0, 1}, anyVisible \in {0, 1},
               focus \in BOOLEAN, raised \in BOOLEAN :
              LET w == IF raised THEN 0
                       ELSE IF IS_LINUX
                       THEN LinuxLookup(byTitle, byProcess, anyVisible)
                       ELSE WindowsLookup(byTitle = 1, byProcess)
                  looked == <<Entry("lookup", <<>>, TRUE)>>
              IN  /\ lookup' = [window |-> w, focused |-> w # 0 /\ focus,
                                raised |-> raised]
                  /\ IF raised /\ ~RetryCatches("LookupError")
                     THEN /\ Raise("LookupError")
                          /\ log' = looked
                          /\ UNCHANGED <<now, window>>
                     ELSE IF WindowReady(w, focus)
                     THEN /\ window' = w
                          /\ log' = looked
                          /\ pc' = "launch_wait"
                          /\ UNCHANGED <<now, pending>>
                     ELSE \* not found, not focused or raised: sleep, poll again
                          /\ now' = now + WindowPollMs
                          /\ log' = Append(looked,
                                      Entry("sleep", <<WindowPollMs>>, TRUE))
                          /\ UNCHANGED <<pc, pending, window>>
    /\ UNCHANGED <<inputs, events, event, deadline, process, capture_index,
                   path, paths, tiers, interrupted, stealthLocals>>

(***************************************************************************)
(* Capture paths and tiered capture.                                       *)
(***************************************************************************)
\* f"{self._capture_index:03d}_{label}.png"
FileName(index, label) ==
    ZeroPad(index, IndexWidth) \o <<95>> \o label \o <<46, 112, 110, 103>>

\* mutant: the counter is not incremented
NextCapturePathNoIncrement(label) ==
    /\ path' = FileName(capture_index, label)
    /\ capture_index' = capture_index
    /\ paths' = IF paths = <<>> THEN <<FileName(capture_index, label)>>
                ELSE <<paths[Len(paths)], FileName(capture_index, label)>>

\* _next_capture_path: hands out the name and increments the counter
NextCapturePath(label) ==
    /\ path' = FileName(capture_index, label)
    /\ capture_index' = capture_index + 1
    /\ paths' = IF paths = <<>> THEN <<FileName(capture_index, label)>>
                ELSE <<paths[Len(paths)], FileName(capture_index, label)>>

\* label of _event_screenshot_path; timestamps are kept in ms
EventCaptureLabel(e) ==
    LET stripped == Strip(SubNonWord(EventLabel(e), FALSE))
        safe_label == IF stripped = <<>> THEN <<101, 118, 101, 110, 116>>
                      ELSE stripped
    IN  ZeroPad(e.timestamp, MillisWidth) \o <<95>>
          \o ZeroPad(e.index, IndexWidth) \o <<95>> \o safe_label

\* f"stealth_{elapsed:07d}ms"
StealthLabel(elapsed) ==
    <<115, 116, 101, 97, 108, 116, 104, 95>> \o ZeroPad(elapsed, MillisWidth)
       \o <<109, 115>>

AfterLaunchLabel == <<97, 102, 116, 101, 114, 95, 108, 97, 117, 110, 99, 104>>
AfterStealthLabel ==
    <<97, 102, 116, 101, 114, 95, 115, 116, 101, 97, 108, 116, 104>>

Attempt(tier, ok) == [tier |-> tier, ok |-> ok]

\* mutant: no return after a successful client-area capture
CaptureWindowWindowsNoReturn(region, clientOk, windowOk, screenOk) ==
    LET first == IF region THEN <<Attempt("client_region", clientOk)>> ELSE <<>>
    IN  IF windowOk
        THEN [attempts |-> Append(first, Attempt("window", TRUE)),
              raised |-> FALSE]
        ELSE [attempts |-> first \o <<Attempt("window", FALSE),
                                      Attempt("screen", screenOk)>>,
              raised |-> ~screenOk]

\* _capture_window_windows with _client_region_windows and
\* _capture_screen_windows: the attempts made, and whether the last one raised
CaptureWindowWindows(region, clientOk, windowOk, screenOk) ==
    LET first == IF region THEN <<Attempt("client_region", clientOk)>> ELSE <<>>
    IN  IF region /\ clientOk
        THEN [attempts |-> first, raised |-> FALSE]
        ELSE IF windowOk
        THEN [attempts |-> Append(first, Attempt("window", TRUE)),
              raised |-> FALSE]
        ELSE [attempts |-> first \o <<Attempt("window", FALSE),
                                      Attempt("screen", screenOk)>>,
              raised |-> ~screenOk]

\* _capture_window_linux: capture_window, then capture_screen; both report
\* failure by their result, which is ignored for capture_screen
CaptureWindowLinux(windowOk, screenOk) ==
    IF windowOk
    THEN [attempts |-> <<Attempt("window", TRUE)>>, raised |-> FALSE]
    ELSE [attempts |-> <<Attempt("window", FALSE),
                         Attempt("screen", screenOk)>>,
          raised |-> FALSE]

\* the time of a capture is followed where a loop reads the clock after it
Latencies == IF mode = "run_stealth" THEN CaptureLatencies ELSE {0}

\* one capture call writing to file name p; goes to next unless it raises
Capture(p, next) ==
    \E region \in BOOLEAN, clientOk \in BOOLEAN, windowOk \in BOOLEAN,
       screenOk \in BOOLEAN, latency \in Latencies :
        LET r == IF IS_LINUX THEN CaptureWindowLinux(windowOk, screenOk)
                 ELSE CaptureWindowWindows(region, clientOk, windowOk, screenOk)
        IN  /\ tiers' = r.attempts
            /\ now' = now + latency
            /\ log' = Append(log, Entry("capture", p, ~r.raised))
            /\ IF r.raised
               THEN Raise("CaptureError")
               ELSE pc' = next /\ UNCHANGED pending

\* _sleep_before_capture
SleepBeforeCapture ==
    IF config.capture_delay > 0
    THEN Sleep(config.capture_delay)
    ELSE UNCHANGED <<now, log>>

(***************************************************************************)
(* Ready: launch wait, settle delay, after-launch frame.                   *)
(***************************************************************************)
LaunchWait ==
    /\ pc = "launch_wait"
    /\ FirstSleep(config.launch_wait)
    /\ pc' = "launch_settle"
    /\ UNCHANGED <<inputs, events, lookup, event, deadline, window, process,
                   capture_index, path, paths, tiers, pending, interrupted,
                   stealthLocals>>

LaunchSettle ==
    /\ pc = "launch_settle"
    /\ SleepBeforeCapture
    /\ pc' = "launch_capture"
    /\ UNCHANGED <<inputs, events, lookup, event, deadline, window, process,
                   capture_index, path, paths, tiers, pending, interrupted,
                   stealthLocals>>

\* mutant: run_stealth goes on as run does, into the replay loop
LaunchCaptureThenReplay ==
    /\ pc = "launch_capture"
    /\ NextCapturePath(AfterLaunchLabel)
    /\ Capture(FileName(capture_index, AfterLaunchLabel), "next_event")
    /\ UNCHANGED <<inputs, events, lookup, event, deadline, window, process,
                   interrupted, stealthLocals>>

\* mutant: the replay starts without the after-launch frame
LaunchCaptureSkipped ==
    /\ pc = "launch_capture"
    /\ pc' = IF mode = "run" THEN "next_event" ELSE "stealth_init"
    /\ UNCHANGED <<inputs, events, lookup, event, now, deadline, window,
                   process, capture_index, path, paths, tiers, log, pending,
                   interrupted, stealthLocals>>

LaunchCapture ==
    /\ pc = "launch_capture"
    /\ NextCapturePath(AfterLaunchLabel)
    /\ Capture(FileName(capture_index, AfterLaunchLabel),
               IF mode = "run" THEN "next_event" ELSE "stealth_init")
    /\ UNCHANGED <<inputs, events, lookup, event, deadline, window, process,
                   interrupted, stealthLocals>>

(***************************************************************************)
(* Replaying: the for loop of run and _handle_event_linux/_windows.        *)
(***************************************************************************)
Current == events[event]

runnerOnly ==
    <<inputs, events, lookup, deadline, window, process, interrupted,
      stealthLocals>>

\* mutant: the loop is left after an exit event
NextEventStopsAtExit ==
    /\ pc = "next_event"
    /\ IF event < total /\ ~(event >= 1 /\ events[event].action = "exit")
       THEN /\ \E kind \in EventKinds :
                  events' = Append(events, Yielded(events, kind))
            /\ event' = event + 1
            /\ pc' = "event_sleep"
       ELSE /\ pc' = "await_exit"
            /\ UNCHANGED <<events, event>>
    /\ log' = <<>>
    /\ tiers' = <<>>
    /\ UNCHANGED <<inputs, lookup, now, deadline, window, process,
                   capture_index, path, paths, pending, interrupted,
                   stealthLocals>>

\* for event in events: the iterable yields its next event or is exhausted
NextEvent ==
    /\ pc = "next_event"
    /\ IF event < total
       THEN /\ \E kind \in EventKinds :
                  events' = Append(events, Yielded(events, kind))
            /\ event' = event + 1
            /\ pc' = "event_sleep"
       ELSE /\ pc' = "await_exit"
            /\ UNCHANGED <<events, event>>
    /\ log' = <<>>
    /\ tiers' = <<>>
    /\ UNCHANGED <<inputs, lookup, now, deadline, window, process,
                   capture_index, path, paths, pending, interrupted,
                   stealthLocals>>

\* mutant: the delta of the event is not slept
EventSleepSkipped ==
    /\ pc = "event_sleep"
    /\ pc' = "event_dispatch"
    /\ UNCHANGED <<runnerOnly, event, now, log, capture_index, path, paths,
                   tiers, pending>>

\* if event.delta > 0: time.sleep(event.delta)
EventSleep ==
    /\ pc = "event_sleep"
    /\ IF Current.delta > 0 THEN Sleep(Current.delta)
       ELSE UNCHANGED <<now, log>>
    /\ pc' = "event_dispatch"
    /\ UNCHANGED <<runnerOnly, event, capture_index, path, paths, tiers,
                   pending>>

\* window.client_to_screen(point): the window's origin on the screen
ClientToScreen(point) == <<point[1] + 100, point[2] + 50>>

\* the pointer call of _send_mouse_*: with the duration if it is positive
MoveArgs(coords) ==
    IF config.pointer_duration > 0
    THEN <<coords[1], coords[2], config.pointer_duration>>
    ELSE <<coords[1], coords[2]>>

ButtonOf(e) == IF e.button # NoButton THEN e.button ELSE "left"

\* _send_mouse_windows: pyautogui calls raise on failure
SendMouseWindows(e, press, translated, moveOk, buttonOk) ==
    LET coords == IF e.window_point # NoPoint /\ translated
                  THEN ClientToScreen(e.window_point) ELSE NoPoint
        move == IF coords # NoPoint
                THEN <<Entry("move", MoveArgs(coords), moveOk)>> ELSE <<>>
        op == IF press THEN "mouse_press" ELSE "mouse_release"
    IN  IF coords # NoPoint /\ ~moveOk
        THEN [calls |-> move, raised |-> TRUE]
        ELSE [calls |-> Append(move, Entry(op, <<ButtonOf(e)>>, buttonOk)),
              raised |-> ~buttonOk]

\* _send_mouse_linux: the X11 input calls report failure by their result,
\* which is ignored; event.window_point is used as it is
SendMouseLinux(e, press, moveOk, buttonOk) ==
    LET coords == e.window_point
        move == IF coords # NoPoint
                THEN <<Entry("move", MoveArgs(coords), moveOk)>> ELSE <<>>
        op == IF press THEN "mouse_press" ELSE "mouse_release"
    IN  [calls |-> Append(move, Entry(op, <<ButtonOf(e)>>, buttonOk)),
         raised |-> FALSE]

\* _send_key_windows / _send_key_linux
SendKey(e, keyOk) ==
    IF e.button # NoButton
    THEN [calls |-> <<Entry("key", <<e.button>>, keyOk)>>,
          raised |-> ~IS_LINUX /\ ~keyOk]
    ELSE [calls |-> <<>>, raised |-> FALSE]

NoCalls == [calls |-> <<>>, raised |-> FALSE]

\* mutant: a key release is injected like a key press
DispatchInjectsRelease(e, translated, moveOk, buttonOk) ==
    CASE e.action = "mouse_press" ->
            IF IS_LINUX THEN SendMouseLinux(e, TRUE, moveOk, buttonOk)
            ELSE SendMouseWindows(e, TRUE, translated, moveOk, buttonOk)
      [] e.action = "mouse_release" ->
            IF IS_LINUX THEN SendMouseLinux(e, FALSE, moveOk, buttonOk)
            ELSE SendMouseWindows(e, FALSE, translated, moveOk, buttonOk)
      [] e.action = "key_press" -> SendKey(e, buttonOk)
      [] e.action = "key_release" -> SendKey(e, buttonOk)
      [] e.action = "exit" -> NoCalls
      [] OTHER -> NoCalls

\* the if/elif chain on event.action
Dispatch(e, translated, moveOk, buttonOk) ==
    CASE e.action = "mouse_press" ->
            IF IS_LINUX THEN SendMouseLinux(e, TRUE, moveOk, buttonOk)
            ELSE SendMouseWindows(e, TRUE, translated, moveOk, buttonOk)
      [] e.action = "mouse_release" ->
            IF IS_LINUX THEN SendMouseLinux(e, FALSE, moveOk, buttonOk)
            ELSE SendMouseWindows(e, FALSE, translated, moveOk, buttonOk)
      [] e.action = "key_press" -> SendKey(e, buttonOk)
      [] e.action = "key_release" -> NoCalls
      [] e.action = "exit" -> NoCalls
      [] OTHER -> NoCalls

EventDispatch ==
    /\ pc = "event_dispatch"
    /\ \E translated \in BOOLEAN, moveOk \in BOOLEAN, buttonOk \in BOOLEAN :
         LET r == Dispatch(Current, translated, moveOk, buttonOk)
         IN  /\ log' = log \o r.calls
             /\ IF r.raised
                THEN Raise("InputError")
                ELSE pc' = "event_path" /\ UNCHANGED pending
    /\ UNCHANGED <<runnerOnly, event, now, capture_index, path, paths, tiers>>

\* _event_screenshot_path(event)
EventPath ==
    /\ pc = "event_path"
    /\ NextCapturePath(EventCaptureLabel(Current))
    /\ pc' = "event_settle"
    /\ UNCHANGED <<runnerOnly, event, now, tiers, log, pending>>

EventSettle ==
    /\ pc = "event_settle"
    /\ SleepBeforeCapture
    /\ pc' = "event_capture"
    /\ UNCHANGED <<runnerOnly, event, capture_index, path, paths, tiers,
                   pending>>

\* where the handler goes after its capture: the exit branch closes the
\* window, every other branch is finished
AfterEventCapture(e) ==
    IF e.action = "exit" THEN "event_close" ELSE "next_event"

\* mutant: the exit branch falls through to the generic capture
AfterCloseFallthrough == "event_path"

\* the return that ends the exit branch
AfterClose == "next_event"

EventCapture ==
    /\ pc = "event_capture"
    /\ Capture(path, AfterEventCapture(Current))
    /\ UNCHANGED <<runnerOnly, event, capture_index, path, paths>>

\* mutant: a close request that fails is raised out of the handler
EventCloseRaises ==
    /\ pc = "event_close"
    /\ \E closeOk \in BOOLEAN :
          /\ log' = Append(log, Entry("close", <<window>>, closeOk))
          /\ IF closeOk
             THEN pc' = AfterClose /\ UNCHANGED pending
             ELSE Raise("InputError")
    /\ UNCHANGED <<runnerOnly, event, now, capture_index, path, paths, tiers>>

\* window.close() / close_window(window_id); a failure is logged and dropped
EventClose ==
    /\ pc = "event_close"
    /\ \E closeOk \in BOOLEAN :
          log' = Append(log, Entry("close", <<window>>, closeOk))
    /\ pc' = AfterClose
    /\ UNCHANGED <<runnerOnly, event, now, capture_index, path, paths, tiers,
                   pending>>

(***************************************************************************)
(* Stealth capture loop of run_stealth.                                    *)
(***************************************************************************)
\* mutant: the interval and the duration are taken as given, unclamped
StealthInitUnclamped ==
    /\ pc = "stealth_init"
    /\ start' = now
    /\ end_time' = now + stealth.length_ms
    /\ interval' = stealth.delta_ms
    /\ next_ts' = now
    /\ pc' = "stealth_loop"
    /\ UNCHANGED <<inputs, events, lookup, event, now, deadline, window,
                   process, capture_index, path, paths, tiers, log, pending,
                   interrupted>>

\* mutant: the first tick is one interval after the start
StealthInitFirstTickLater ==
    /\ pc = "stealth_init"
    /\ start' = now
    /\ end_time' = now + Max(0, stealth.length_ms)
    /\ interval' = Max(1, stealth.delta_ms)
    /\ next_ts' = now + Max(1, stealth.delta_ms)
    /\ pc' = "stealth_loop"
    /\ UNCHANGED <<inputs, events, lookup, event, now, deadline, window,
                   process, capture_index, path, paths, tiers, log, pending,
                   interrupted>>

StealthInit ==
    /\ pc = "stealth_init"
    /\ start' = now
    /\ end_time' = now + Max(0, stealth.length_ms)
    /\ interval' = Max(1, stealth.delta_ms)
    /\ next_ts' = now
    /\ pc' = "stealth_loop"
    /\ UNCHANGED <<inputs, events, lookup, event, now, deadline, window,
                   process, capture_index, path, paths, tiers, log, pending,
                   interrupted>>

\* mutant: the loop does not sleep up to the tick
StealthLoopNoSleep ==
    /\ pc = "stealth_loop"
    /\ IF now >= end_time
       THEN pc' = "after_settle" /\ log' = <<>> /\ UNCHANGED now
       ELSE /\ pc' = "stealth_settle"
            /\ log' = <<>> /\ UNCHANGED now
    /\ tiers' = <<>>
    /\ UNCHANGED <<runnerOnly, event, capture_index, path, paths, pending>>

\* head of the while loop: break at the end time, else sleep up to the tick
StealthLoop ==
    /\ pc = "stealth_loop"
    /\ IF now >= end_time
       THEN pc' = "after_settle" /\ log' = <<>> /\ UNCHANGED now
       ELSE /\ pc' = "stealth_settle"
            /\ IF now < next_ts THEN FirstSleep(Max(0, next_ts - now))
               ELSE log' = <<>> /\ UNCHANGED now
    /\ tiers' = <<>>
    /\ UNCHANGED <<runnerOnly, event, capture_index, path, paths, pending>>

StealthSettle ==
    /\ pc = "stealth_settle"
    /\ SleepBeforeCapture
    /\ pc' = "stealth_capture"
    /\ UNCHANGED <<runnerOnly, event, capture_index, path, paths, tiers,
                   pending>>

\* mutant: the tick is re-based on the time after the capture
StealthCaptureRebased ==
    /\ pc = "stealth_capture"
    /\ NextCapturePath(StealthLabel(now - start))
    /\ Capture(FileName(capture_index, StealthLabel(now - start)),
               "stealth_loop")
    /\ next_ts' = IF pc' = "stealth_loop" THEN now' + interval ELSE next_ts
    /\ UNCHANGED <<inputs, events, lookup, event, deadline, window, process,
                   interrupted, start, end_time, interval>>

\* label, capture and the advance of the tick
StealthCapture ==
    /\ pc = "stealth_capture"
    /\ NextCapturePath(StealthLabel(now - start))
    /\ Capture(FileName(capture_index, StealthLabel(now - start)),
               "stealth_loop")
    /\ next_ts' = IF pc' = "stealth_loop" THEN next_ts + interval ELSE next_ts
    /\ UNCHANGED <<inputs, events, lookup, event, deadline, window, process,
                   interrupted, start, end_time, interval>>

AfterSettle ==
    /\ pc = "after_settle"
    /\ SleepBeforeCapture
    /\ pc' = "after_capture"
    /\ UNCHANGED <<runnerOnly, event, capture_index, path, paths, tiers,
                   pending>>

AfterCapture ==
    /\ pc = "after_capture"
    /\ NextCapturePath(AfterStealthLabel)
    /\ Capture(FileName(capture_index, AfterStealthLabel), "await_exit")
    /\ UNCHANGED <<runnerOnly, event>>

(***************************************************************************)
(* AwaitingExit: _await_exit.                                              *)
(***************************************************************************)
\* psutil.pid_exists(pid): the pid of a child exists until the child is
\* reaped, and the runner reaps it only in poll() and wait()
IsProcessRunning == process \in {"running", "exited"}

AwaitExit ==
    /\ pc = "await_exit"
    /\ IF config.exit_timeout <= 0
       THEN pc' = "cleanup" /\ UNCHANGED deadline
       ELSE /\ deadline' = now + config.exit_timeout
            /\ pc' = IF IS_LINUX THEN "exit_poll" ELSE "exit_wait"
    /\ log' = <<>>
    /\ tiers' = <<>>
    /\ UNCHANGED <<inputs, events, lookup, event, now, window, process,
                   capture_index, path, paths, pending, interrupted,
                   stealthLocals>>

\* Linux: the polling loop; it ends without a log entry
ExitPoll ==
    /\ pc = "exit_poll"
    /\ IF now >= deadline
       THEN pc' = "cleanup" /\ UNCHANGED <<now, log>>
       ELSE IF ~IsProcessRunning
       THEN pc' = "cleanup" /\ UNCHANGED <<now, log>>
       ELSE Sleep(ExitPollMs) /\ UNCHANGED pc
    /\ UNCHANGED <<runnerOnly, event, capture_index, path, paths, tiers,
                   pending>>

\* Windows: process.wait(timeout=exit_timeout); TimeoutExpired is logged
ExitWait ==
    /\ pc = "exit_wait"
    /\ IF process # "running"
       THEN UNCHANGED <<now, log>>
       ELSE /\ now' = Max(now, deadline)
            /\ log' = Append(log,
                        Entry("warning", <<config.exit_timeout>>, TRUE))
    /\ pc' = "cleanup"
    /\ UNCHANGED <<runnerOnly, event, capture_index, path, paths, tiers,
                   pending>>

(***************************************************************************)
(* Terminated: _cleanup_process in the finally clause.                     *)
(***************************************************************************)
\* poll(), terminate()
Cleanup ==
    /\ pc = "cleanup"
    /\ IF process = "running"
       THEN /\ log' = <<Entry("terminate", <<>>, TRUE)>>
            /\ deadline' = now + GraceMs
            /\ pc' = "grace_wait"
       ELSE /\ pc' = "done"
            /\ log' = <<>>
            /\ UNCHANGED deadline
    /\ tiers' = <<>>
    /\ UNCHANGED <<inputs, events, lookup, event, now, window, process,
                   capture_index, path, paths, pending, interrupted,
                   stealthLocals>>

\* mutant: kill() right after terminate(), without the grace period
GraceWaitKillsAtOnce ==
    /\ pc = "grace_wait"
    /\ \/ /\ process # "running"
          /\ UNCHANGED <<process, now, log>>
       \/ /\ process = "running"
          /\ log' = Append(log, Entry("kill", <<>>, TRUE))
          /\ process' = "killed"
          /\ UNCHANGED now
    /\ pc' = "done"
    /\ UNCHANGED <<inputs, events, lookup, event, deadline, window,
                   capture_index, path, paths, tiers, pending, interrupted,
                   stealthLocals>>

\* wait(timeout=5), kill() on TimeoutExpired
GraceWait ==
    /\ pc = "grace_wait"
    /\ \/ /\ process # "running"
          /\ UNCHANGED <<process, now, log>>
       \/ /\ process = "running"
          /\ process' = "terminated"
          /\ UNCHANGED <<now, log>>
       \/ /\ process = "running"
          /\ now' = Max(now, deadline)
          /\ log' = Append(log, Entry("kill", <<>>, TRUE))
          /\ process' = "killed"
    /\ pc' = "done"
    /\ UNCHANGED <<inputs, events, lookup, event, deadline, window,
                   capture_index, path, paths, tiers, pending, interrupted,
                   stealthLocals>>

(***************************************************************************)
(* Environment: the user and the target process.                           *)
(***************************************************************************)
\* the positions inside the try block of run and run_stealth
TryBody ==
    {"wait_window", "launch_wait", "launch_settle", "launch_capture",
     "next_event", "event_sleep", "event_dispatch", "event_path",
     "event_settle", "event_capture", "event_close", "stealth_init",
     "stealth_loop", "stealth_settle", "stealth_capture", "after_settle",
     "after_capture", "await_exit", "exit_poll", "exit_wait"}

\* KeyboardInterrupt raised at the current position
Interrupt ==
    /\ pc \in TryBody
    /\ ~interrupted
    /\ interrupted' = TRUE
    /\ IF pc = "wait_window" /\ RetryCatches("KeyboardInterrupt")
       THEN Sleep(WindowPollMs) /\ UNCHANGED <<pc, pending>>
       ELSE Raise("KeyboardInterrupt") /\ UNCHANGED <<now, log>>
    /\ UNCHANGED <<inputs, events, lookup, event, deadline, window, process,
                   capture_index, path, paths, tiers, stealthLocals>>

\* the target process ends on its own
ProcessExits ==
    /\ process = "running"
    /\ pc # "done"
    /\ process' = "exited"
    /\ UNCHANGED <<inputs, events, lookup, pc, event, now, deadline, window,
                   capture_index, path, paths, tiers, log, pending,
                   interrupted, stealthLocals>>

Next ==
    \/ Launch
    \/ PollWindow
    \/ LaunchWait
    \/ LaunchSettle
    \/ LaunchCapture
    \/ NextEvent
    \/ EventSleep
    \/ EventDispatch
    \/ EventPath
    \/ EventSettle
    \/ EventCapture
    \/ EventClose
    \/ StealthInit
    \/ StealthLoop
    \/ StealthSettle
    \/ StealthCapture
    \/ AfterSettle
    \/ AfterCapture
    \/ AwaitExit
    \/ ExitPoll
    \/ ExitWait
    \/ Cleanup
    \/ GraceWait
    \/ Interrupt
    \/ ProcessExits

Spec == Init /\ [][Next]_vars

(***************************************************************************)
(* run_stealth alone, with the runner always taking its next step: a       *)
(* sequential program does not stop between two statements.                *)
(***************************************************************************)
InitStealth == Init /\ mode = "run_stealth"

RunStealth ==
    \/ Launch
    \/ PollWindow
    \/ LaunchWait
    \/ LaunchSettle
    \/ LaunchCapture
    \/ StealthInit
    \/ StealthLoop
    \/ StealthSettle
    \/ StealthCapture
    \/ AfterSettle
    \/ AfterCapture
    \/ AwaitExit
    \/ ExitPoll
    \/ ExitWait
    \/ Cleanup
    \/ GraceWait

NextStealth == RunStealth \/ Interrupt \/ ProcessExits

SpecStealth == InitStealth /\ [][NextStealth]_vars /\ WF_vars(RunStealth)

(***************************************************************************)
(* File naming alone: _next_capture_path applied at any value the counter  *)
(* can have in a run (a stealth run of duration D with interval 1 ms makes *)
(* up to D captures, a transcript of n events n + 1).                      *)
(***************************************************************************)
NameLabels ==
    { AfterLaunchLabel, AfterStealthLabel, StealthLabel(50),
      EventCaptureLabel(WithIndex(<<CHOOSE k \in EventKinds :
                                      k.action = "key_press">>)[1]) }

InitNames ==
    /\ IS_LINUX = TRUE
    /\ config = BaseConfig
    /\ mode = "run_stealth"
    /\ total = 0
    /\ events = <<>>
    /\ stealth = [delta_ms |-> 1, length_ms |-> MaxIndex]
    /\ pc = "stealth_capture"
    /\ event = 0
    /\ now = 0
    /\ deadline = 0
    /\ window = 1
    /\ process = "running"
    /\ capture_index \in 0..MaxIndex
    /\ path = <<>>
    /\ paths = <<>>
    /\ tiers = <<>>
    /\ lookup = [window |-> 1, focused |-> TRUE, raised |-> FALSE]
    /\ log = <<>>
    /\ pending = "none"
    /\ interrupted = FALSE
    /\ start = 0 /\ end_time = 0 /\ interval = 0 /\ next_ts = 0
    /\ lines = <<>>
    /\ idx = 0
    /\ returned = NoResult
    /\ message = NoMessage

\* one capture-path request
NameRequest ==
    /\ capture_index <= MaxIndex
    /\ \E label \in NameLabels : NextCapturePath(label)
    /\ UNCHANGED <<inputs, events, lookup, pc, event, now, deadline, window,
                   process, tiers, log, pending, interrupted, stealthLocals>>

SpecNames == InitNames /\ [][NameRequest]_vars

(***************************************************************************)
(* ScriptParser.parse alone, applied to every transcript of at most        *)
(* MaxLines lines.                                                         *)
(***************************************************************************)
Transcripts == UNION { [1..n -> TranscriptLines] : n \in 0..MaxLines }

\* what the parser does not touch
runnerState ==
    <<IS_LINUX, config, mode, total, stealth, event, now, deadline, window,
      process, capture_index, path, paths, tiers, lookup, log, interrupted,
      stealthLocals>>

InitParser ==
    /\ IS_LINUX = TRUE
    /\ config = BaseConfig
    /\ mode = "run"
    /\ total = 0
    /\ stealth = NoArgs
    /\ events = <<>>
    /\ pc = "parse"
    /\ event = 0
    /\ now = 0
    /\ deadline = 0
    /\ window = 0
    /\ process = "none"
    /\ capture_index = 0
    /\ path = <<>>
    /\ paths = <<>>
    /\ tiers = <<>>
    /\ lookup = NoLookup
    /\ log = <<>>
    /\ pending = "none"
    /\ interrupted = FALSE
    /\ start = 0 /\ end_time = 0 /\ interval = 0 /\ next_ts = 0
    /\ lines \in Transcripts
    /\ idx = 0
    /\ returned = NoResult
    /\ message = NoMessage

\* mutant: the index of an event is the number of its line
NextIndexLineNo(evs, line_no) == line_no - 1

\* len(events), the index handed to _parse_line
NextIndex(evs, line_no) == Len(evs)

\* mutant: a malformed line ends the parse with the events read so far
ParseLineReturnsPartial ==
    /\ pc = "parse"
    /\ idx < Len(lines)
    /\ idx' = idx + 1
    /\ LET line == StripLine(lines[idx + 1])
           r == ParseLineOf(line, NextIndex(events, idx + 1))
       IN  IF line = EmptyLine
           THEN UNCHANGED <<events, pc, returned>>
           ELSE IF r.raised
           THEN /\ pc' = "parsed"
                /\ returned' = [done |-> TRUE, events |-> events]
                /\ UNCHANGED events
           ELSE /\ events' = Append(events, r.event)
                /\ UNCHANGED <<pc, returned>>
    /\ UNCHANGED <<runnerState, lines, pending, message>>

\* one iteration of the for loop of parse: strip, skip a blank line, parse
\* the line and append its event; the error of _parse_line leaves parse
ParseLine ==
    /\ pc = "parse"
    /\ idx < Len(lines)
    /\ idx' = idx + 1
    /\ LET line == StripLine(lines[idx + 1])
           r == ParseLineOf(line, NextIndex(events, idx + 1))
       IN  IF line = EmptyLine
           THEN UNCHANGED <<events, pc, pending, message>>
           ELSE IF r.raised
           THEN /\ pc' = "parse_raised"
                /\ pending' = "ValueError"
                /\ message' = r.message
                /\ UNCHANGED events
           ELSE /\ events' = Append(events, r.event)
                /\ UNCHANGED <<pc, pending, message>>
    /\ UNCHANGED <<runnerState, lines, returned>>

\* self._assign_deltas(events) after the loop
AssignDeltasCall ==
    /\ pc = "parse"
    /\ idx = Len(lines)
    /\ events' = AssignDeltas(events, 0)
    /\ pc' = "parse_return"
    /\ UNCHANGED <<runnerState, lines, idx, returned, pending, message>>

\* return events
ParseReturn ==
    /\ pc = "parse_return"
    /\ returned' = [done |-> TRUE, events |-> events]
    /\ pc' = "parsed"
    /\ UNCHANGED <<runnerState, lines, idx, events, pending, message>>

NextParser == ParseLine \/ AssignDeltasCall \/ ParseReturn

SpecParser == InitParser /\ [][NextParser]_vars

(***************************************************************************)
(* Script mode of main (src/src/main.py): parse the transcript, refuse an  *)
(* empty event list, construct the runner and call run, followed here up   *)
(* to the end of window discovery.                                         *)
(***************************************************************************)
\* the lines of the transcripts handed to main
MainLines ==
    { Raw(FALSE, EmptyLine),
      Raw(TRUE, EmptyLine),
      Raw(FALSE, Stamped(800, KeyBody("Pressed", "W"))),
      Raw(FALSE, [stamp |-> "", seconds |-> 0, body |-> TextBody(FALSE)]) }

MainTranscripts == UNION { [1..n -> MainLines] : n \in 0..MaxLines }

InitMain ==
    /\ IS_LINUX \in BOOLEAN
    /\ config \in Configs
    /\ mode = "run"
    /\ total = 0
    /\ stealth = NoArgs
    /\ events = <<>>
    /\ pc = "parse"
    /\ event = 0
    /\ now = 0
    /\ deadline = 0
    /\ window = 0
    /\ process = "none"
    /\ capture_index = 0
    /\ path = <<>>
    /\ paths = <<>>
    /\ tiers = <<>>
    /\ lookup = NoLookup
    /\ log = <<>>
    /\ pending = "none"
    /\ interrupted = FALSE
    /\ start = 0 /\ end_time = 0 /\ interval = 0 /\ next_ts = 0
    /\ lines \in MainTranscripts
    /\ idx = 0
    /\ returned = NoResult
    /\ message = NoMessage

\* mutant: main hands whatever was parsed to run
MainCheckUnguarded ==
    /\ pc = "parsed"
    /\ total' = Len(returned.events)
    /\ events' = <<>>
    /\ pc' = "start"
    /\ UNCHANGED <<IS_LINUX, config, mode, stealth, event, now, deadline,
                   window, process, capture_index, path, paths, tiers, lookup,
                   log, pending, interrupted, stealthLocals, parserState>>

\* if not events: raise SystemExit(...); else AutomationRunner(config) and
\* runner.run(events), whose iterable has yielded nothing yet
MainCheck ==
    /\ pc = "parsed"
    /\ IF returned.events = <<>>
       THEN /\ pending' = "SystemExit"
            /\ pc' = "done"
            /\ UNCHANGED <<total, events>>
       ELSE /\ total' = Len(returned.events)
            /\ events' = <<>>
            /\ pc' = "start"
            /\ UNCHANGED pending
    /\ UNCHANGED <<IS_LINUX, config, mode, stealth, event, now, deadline,
                   window, process, capture_index, path, paths, tiers, lookup,
                   log, interrupted, stealthLocals, parserState>>

NextMain ==
    \/ ParseLine
    \/ AssignDeltasCall
    \/ ParseReturn
    \/ MainCheck
    \/ Launch
    \/ PollWindow
    \/ Cleanup
    \/ GraceWait

SpecMain == InitMain /\ [][NextMain]_vars

(***************************************************************************)
(* Properties.                                                             *)
(***************************************************************************)
CleanupPcs == {"cleanup", "grace_wait"}
Finished == pc = "done"
Spawned == process # "none"

\* C1: once the target process was spawned, the call ends (returns or
\* raises) only out of the cleanup step, and the process is then no longer
\* running: it has exited, was terminated or was killed -- whatever failed
\* before (discovery timeout, a raising backend call, an exit timeout).
C1_CleanupAlways ==
    [][(pc' = "done" /\ process' # "none") =>
          /\ pc \in CleanupPcs
          /\ process' \in {"exited", "terminated", "killed"}]_vars

\* a discovery timeout whose process ignored the terminate request
C1_Witness ==
    Finished /\ pending = "TimeoutError" /\ process = "killed"

\* C2: with a missing executable the call fails at once with the
\* missing-executable error: nothing is spawned, no window lookup is made,
\* no input is injected, no frame is captured, the counter stays 0.
C2_MissingExecutable ==
    ~config.exe_exists =>
        /\ pc \in {"start", "done"}
        /\ Finished => pending = "FileNotFoundError"
        /\ process = "none"
        /\ lookup = NoLookup
        /\ window = 0
        /\ log = <<>>
        /\ tiers = <<>>
        /\ event = 0
        /\ capture_index = 0
        /\ paths = <<>>

C2_Witness ==
    ~config.exe_exists /\ Finished /\ pending = "FileNotFoundError"

\* C3: a user interrupt delivered anywhere in the body of the run (window
\* discovery, a sleep, a dispatch, a capture, the stealth loop, the wait for
\* exit) leads directly to the cleanup step: afterwards the runner is only
\* ever in cleanup or finished, the interrupt is the pending error, and when
\* the call ends the process is no longer running.
C3_InterruptUnwinds ==
    [][interrupted' =>
          /\ pc' \in CleanupPcs \cup {"done"}
          /\ pending' = "KeyboardInterrupt"
          /\ (~interrupted => pc' = "cleanup" /\ pc \in TryBody)
          /\ (pc' = "done" => process' \in {"exited", "terminated", "killed"})
          /\ capture_index' = capture_index
          /\ event' = event
          /\ window' = window]_vars

\* interrupted while replaying the second event; the process had to be killed
C3_Witness ==
    /\ Finished /\ interrupted /\ pending = "KeyboardInterrupt"
    /\ mode = "run" /\ event = 2 /\ process = "killed"

(***************************************************************************)
(* States of the orchestrator (spec.md 4.3) as positions of the runner.    *)
(***************************************************************************)
ReadyPcs == {"launch_wait", "launch_settle", "launch_capture"}
EventPcs ==
    {"event_sleep", "event_dispatch", "event_path", "event_settle",
     "event_capture", "event_close"}
StealthPcs ==
    {"stealth_init", "stealth_loop", "stealth_settle", "stealth_capture",
     "after_settle", "after_capture"}
ExitPcs == {"await_exit", "exit_poll", "exit_wait"}
PathPcs == {"launch_capture", "event_path", "stealth_capture", "after_capture"}

StateOf(p) ==
    CASE p = "start" -> "Launching"
      [] p = "wait_window" -> "AwaitingWindow"
      [] p \in ReadyPcs -> "Ready"
      [] p \in EventPcs \cup StealthPcs \cup {"next_event"} -> "Replaying"
      [] p \in ExitPcs -> "AwaitingExit"
      [] OTHER -> "Terminated"

Rank(state) ==
    CASE state = "Launching" -> 1
      [] state = "AwaitingWindow" -> 2
      [] state = "Ready" -> 3
      [] state = "Replaying" -> 4
      [] state = "AwaitingExit" -> 5
      [] OTHER -> 6

InjectOps == {"move", "mouse_press", "mouse_release", "key", "close"}
Ops(l) == {l[k].op : k \in 1..Len(l)}
Count(l, op) == Cardinality({k \in 1..Len(l) : l[k].op = op})

\* the step is one of the runner, not of the user or of the target process
RunnerStep == process' = process /\ interrupted' = interrupted

\* the calls of the Ready state: launch wait, settle delay, one frame
ReadyCalls(file) ==
    <<[op |-> "sleep", ev |-> 0, arg |-> <<config.launch_wait>>, ok |-> TRUE]>>
      \o (IF config.capture_delay > 0
          THEN <<[op |-> "sleep", ev |-> 0, arg |-> <<config.capture_delay>>,
                  ok |-> TRUE]>>
          ELSE <<>>)
      \o <<[op |-> "capture", ev |-> 0, arg |-> file, ok |-> TRUE]>>

\* C4: the run moves through Launching, AwaitingWindow, Ready, Replaying,
\* AwaitingExit, Terminated in this order, one state at a time unless it
\* fails into Terminated, and never back; no frame is captured and no event
\* handled before a window was found and focused; the after-launch frame,
\* counter 000, follows the launch wait and the settle delay and precedes
\* the first event.
C4_StateOrder ==
    [][/\ Rank(StateOf(pc')) >= Rank(StateOf(pc))
       /\ \/ Rank(StateOf(pc')) <= Rank(StateOf(pc)) + 1
          \/ StateOf(pc') = "Terminated"
       /\ (capture_index' > 0 \/ event' > 0) => (window' # 0 /\ lookup'.focused)
       /\ event' > 0 => capture_index' >= 1
       /\ (StateOf(pc) = "Ready" /\ StateOf(pc') = "Replaying") =>
              /\ capture_index' = 1
              /\ event' = 0
              /\ paths' = <<FileName(0, AfterLaunchLabel)>>
              /\ log' = ReadyCalls(FileName(0, AfterLaunchLabel))]_vars

\* the first event is being handled, the after-launch frame is on disk
C4_Witness ==
    /\ pc = "event_dispatch" /\ event = 1 /\ capture_index = 1
    /\ paths = <<FileName(0, AfterLaunchLabel)>>

\* C5: an iteration of window discovery either returns the window it found
\* and focused, or fails with the timeout error when the deadline has
\* passed, or (window not found, found but not focused, lookup raised)
\* sleeps the poll interval and polls again; after a timeout no frame is
\* captured and no event handled.
C5_Discovery ==
    [][/\ (pc = "wait_window" /\ RunnerStep) =>
             IF now >= deadline
             THEN /\ pc' = "cleanup" /\ pending' = "TimeoutError"
                  /\ window' = 0 /\ now >= config.window_timeout
             ELSE IF lookup'.focused
             THEN /\ pc' = "launch_wait" /\ pending' = "none"
                  /\ window' = lookup'.window /\ window' # 0
             ELSE /\ pc' = "wait_window" /\ pending' = "none"
                  /\ window' = 0 /\ now' = now + WindowPollMs
       /\ pending' = "TimeoutError" =>
             /\ pc' \in CleanupPcs \cup {"done"}
             /\ capture_index' = 0 /\ event' = 0 /\ window' = 0
             /\ Ops(log') \cap (InjectOps \cup {"capture"}) = {}]_vars

\* the window was found at the last poll but never focused: timeout
C5_Witness ==
    /\ Finished /\ pending = "TimeoutError"
    /\ lookup.window # 0 /\ ~lookup.focused /\ now >= 400

\* C6: events are handled in index order, each once: the loop advances by
\* one event at a time, an event is entered only from the loop head and
\* only after the frame of the event before it was captured; for an event
\* with delta > 0 the delta sleep is the first call of its handling, ahead
\* of every injection and of the capture.
C6_ReplayOrder ==
    [][/\ event' \in {event, event + 1}
       /\ event' = event + 1 =>
             /\ pc = "next_event" /\ pc' = "event_sleep"
             /\ events'[event'].index = event
             /\ SubSeq(events', 1, event) = events
             /\ event >= 1 => Count(log, "capture") = 1
       /\ (pc' = "event_sleep" /\ pc # "event_sleep") => event' = event + 1
       /\ (pc' = "event_dispatch" /\ pc # "event_dispatch") =>
             pc = "event_sleep"
       /\ (/\ pc' \in (EventPcs \ {"event_sleep"}) \cup {"next_event"}
           /\ event' >= 1
           /\ events'[event'].delta > 0) =>
             /\ log' # <<>>
             /\ log'[1] = [op |-> "sleep", ev |-> event',
                           arg |-> <<events'[event'].delta>>, ok |-> TRUE]
             /\ \A k \in 1..Len(log') :
                   log'[k].op \in InjectOps \cup {"capture"} => k > 1]_vars

\* two events with a delta were handled, the second one injected a key
C6_Witness ==
    /\ pc = "next_event" /\ event = 2
    /\ events[1].delta > 0 /\ events[2].delta > 0
    /\ "key" \in Ops(log) /\ "capture" \in Ops(log)

AllCaptured == capture_index = event + 1
NoneYet == capture_index = event

\* C7: handling one event makes exactly one capture request, after the
\* settle delay; the exit event captures, closes the window and returns
\* without a second capture; after a complete replay of n events the
\* counter is n + 1.
C7_OneCapturePerEvent ==
    mode = "run" =>
        /\ pc = "next_event" =>
              /\ AllCaptured
              /\ event >= 1 => Count(log, "capture") = 1
        /\ pc \in {"event_sleep", "event_dispatch", "event_path"} =>
              NoneYet /\ Count(log, "capture") = 0
        /\ pc \in {"event_settle", "event_capture"} =>
              AllCaptured /\ Count(log, "capture") = 0
        /\ pc = "event_close" =>
              /\ AllCaptured /\ Count(log, "capture") = 1
              /\ Current.action = "exit"
        /\ (pc \in {"next_event", "event_close"} /\ event >= 1
              /\ config.capture_delay > 0) =>
              \E k \in 2..Len(log) :
                 /\ log[k].op = "capture"
                 /\ log[k - 1].op = "sleep"
                 /\ log[k - 1].arg = <<config.capture_delay>>
        /\ pc \in ExitPcs => (event = total /\ capture_index = total + 1)
        /\ (pc \in CleanupPcs \cup {"done"} /\ pending = "none" /\ Spawned) =>
              (event = total /\ capture_index = total + 1)

\* a complete replay of two events, the first of them the exit event
C7_Witness ==
    /\ mode = "run" /\ pc = "await_exit" /\ total = 2 /\ capture_index = 3
    /\ events[1].action = "exit"

RECURSIVE ParseDigits(_, _)
ParseDigits(s, acc) ==
    IF s = <<>> \/ Head(s) \notin 48..57 THEN acc
    ELSE ParseDigits(Tail(s), acc * 10 + (Head(s) - 48))

\* the counter a file name starts with
CounterOf(file) == ParseDigits(file, 0)

\* C8: the counter starts at 0, never decreases, and moves only by a
\* capture-path request, which adds exactly 1 whatever the label is and
\* whatever the tiers of the capture do; the counters in the file names
\* handed out increase strictly.
C8_Counter ==
    [][/\ pc = "start" => capture_index = 0
       /\ capture_index' \in {capture_index, capture_index + 1}
       /\ capture_index' = capture_index + 1 <=>
             (pc \in PathPcs /\ RunnerStep)
       /\ capture_index' = capture_index + 1 =>
             /\ CounterOf(path') = capture_index
             /\ paths'[Len(paths')] = path'
       /\ path' # path => capture_index' = capture_index + 1
       /\ Len(paths') = 2 =>
             CounterOf(paths'[1]) + 1 = CounterOf(paths'[2])]_vars

\* the fourth name was handed out for a capture whose first tier failed
C8_Witness ==
    /\ capture_index = 4 /\ Len(tiers) >= 2 /\ ~tiers[1].ok
    /\ CounterOf(path) = 3

\* C9: of any two capture requests of a run, the file name of the earlier
\* one sorts lexicographically before the file name of the later one, for
\* any number of captures.
C9_NamesSorted ==
    Len(paths) = 2 => LexLess(paths[1], paths[2])


TierRank(tier) ==
    CASE tier = "client_region" -> 1
      [] tier = "window" -> 2
      [] OTHER -> 3

\* C10: the tiers of one capture request are tried in the order client-area
\* region, native window capture, full screen; a tier is tried only after
\* every tier tried before it failed, nothing is tried after a success, and
\* the full screen is captured only after the window capture failed.
C10_TierOrder ==
    \A k \in 1..Len(tiers) :
        /\ k < Len(tiers) =>
              /\ ~tiers[k].ok
              /\ TierRank(tiers[k].tier) < TierRank(tiers[k + 1].tier)
        /\ tiers[k].tier = "client_region" => (k = 1 /\ ~IS_LINUX)
        /\ tiers[k].tier = "screen" => (k > 1 /\ tiers[k - 1].tier = "window")
        /\ (k = Len(tiers) /\ ~tiers[k].ok) => tiers[k].tier = "screen"

\* all three tiers were tried, the last one produced the image
C10_Witness ==
    /\ Len(tiers) = 3 /\ tiers[1].tier = "client_region"
    /\ tiers[2].tier = "window" /\ tiers[3].tier = "screen" /\ tiers[3].ok

(***************************************************************************)
(* Capture failures and the stealth scheduler.                             *)
(***************************************************************************)
CapturePcs ==
    {"launch_capture", "event_capture", "stealth_capture", "after_capture"}

\* C11: a capture request never raises to the orchestrator: whatever the
\* tiers do, the full-screen fallback included, the step of the runner that
\* makes the request leaves no exception pending and goes on to the step
\* that follows the capture, never to the cleanup.
C11_CaptureNeverRaises ==
    [][(pc \in CapturePcs /\ RunnerStep) =>
          /\ pending' = "none"
          /\ pc' \notin CleanupPcs \cup {"done"}]_vars

\* run_stealth(delta_ms = 50, length_ms = 200)
StealthCase ==
    mode = "run_stealth" /\ stealth = [delta_ms |-> 50, length_ms |-> 200]

\* the tick, in ms after the start of the loop, of the interval frame in hand
Tick == next_ts - start

\* C12 as stated: interval 50 ms, duration 200 ms give 6 frames, one
\* after-launch frame, 4 interval frames at ticks 50, 100, 150 and 200 ms
\* and one after-stealth frame.
C12_SixFrames ==
    StealthCase =>
        /\ pc = "stealth_capture" => Tick \in {50, 100, 150, 200}
        /\ pc = "after_settle" => capture_index = 5
        /\ pc = "await_exit" => capture_index = 6

\* C12 amended: interval 50 ms, duration 200 ms, settle delay plus capture
\* latency below the interval: the interval frames are requested at ticks
\* 0, 50, 100, 150 and 200 ms, each after the settle delay that follows its
\* tick, so 5 of them have been requested when the loop ends; with the
\* after-launch frame before and the after-stealth frame after them the run
\* has requested 7 frames when it waits for the exit.
C12_SevenFrames ==
    StealthCase =>
        /\ pc \in {"stealth_settle", "stealth_capture"} =>
              /\ Tick \in {0, 50, 100, 150, 200}
              /\ capture_index = 1 + Tick \div 50
        /\ pc = "stealth_settle" => now = next_ts
        /\ pc = "stealth_capture" => now = next_ts + config.capture_delay
        /\ pc \in {"after_settle", "after_capture"} => capture_index = 6
        /\ pc = "await_exit" =>
              /\ capture_index = 7
              /\ path = FileName(6, AfterStealthLabel)
              /\ paths[1] =
                    FileName(5, StealthLabel(200 + config.capture_delay))

\* the loop is over and the seventh frame, after_stealth, has been taken
C12_Witness ==
    /\ StealthCase /\ pc = "await_exit" /\ capture_index = 7
    /\ \E k \in 1..Len(tiers) : tiers[k].ok

LoopPcs == {"stealth_loop", "stealth_settle", "stealth_capture"}

\* C13: the stealth loop schedules absolutely: while the loop runs, the tick
\* target is start + n * interval, n the number of interval captures made;
\* a capture advances the target by exactly one interval whatever time it
\* took, nothing else moves the target, and the head of the loop sleeps only
\* when the time is before the target, and then exactly up to the target.
C13_AbsoluteSchedule ==
    [][mode = "run_stealth" =>
          /\ pc' \in LoopPcs =>
                next_ts' = start' + (capture_index' - 1) * interval'
          /\ (pc = "stealth_capture" /\ pc' = "stealth_loop") =>
                next_ts' = next_ts + interval
          /\ next_ts' # next_ts => pc \in {"stealth_init", "stealth_capture"}
          /\ (pc = "stealth_init" /\ RunnerStep) =>
                next_ts' = now /\ start' = now
          /\ (pc = "stealth_loop" /\ pc' = "stealth_settle") =>
                IF now < next_ts
                THEN /\ now' = next_ts
                     /\ log' = <<[op |-> "sleep", ev |-> 0,
                                  arg |-> <<next_ts - now>>, ok |-> TRUE]>>
                ELSE now' = now /\ log' = <<>>]_vars

\* a capture took longer than the interval: the loop is behind its target
\* and goes on without sleeping
C13_Witness ==
    /\ mode = "run_stealth" /\ pc = "stealth_settle" /\ capture_index = 3
    /\ now > next_ts /\ log = <<>> /\ next_ts = start + 2 * interval

\* ceil(a / b) for a >= 0, b > 0
CeilDiv(a, b) == (a + b - 1) \div b

C15_StealthInjectsNothing ==
    [][mode = "run_stealth" =>
          /\ Ops(log') \cap InjectOps = {}
          /\ event' = 0 /\ events' = <<>>
          /\ pc' \notin EventPcs \cup {"next_event"}
          /\ pc' \in (ReadyPcs \ {"launch_wait"}) \cup StealthPcs =>
                Ops(log') \subseteq {"sleep", "capture"}
          /\ capture_index' # capture_index =>
                /\ RunnerStep
                /\ Count(log', "capture") = 1
                /\ CASE pc = "launch_capture" ->
                          /\ capture_index = 0
                          /\ path' = FileName(0, AfterLaunchLabel)
                     [] pc = "stealth_capture" ->
                          /\ capture_index >= 1
                          /\ path' = FileName(capture_index,
                                              StealthLabel(now - start))
                     [] pc = "after_capture" ->
                          path' = FileName(capture_index, AfterStealthLabel)
                     [] OTHER -> FALSE
          /\ pc \in {"stealth_init"} \cup LoopPcs => capture_index >= 1
          /\ pc' \in ExitPcs =>
                /\ capture_index' >= 2
                /\ path' = FileName(capture_index' - 1, AfterStealthLabel)
          /\ pc \in ExitPcs \cup CleanupPcs \cup {"done"} =>
                capture_index' = capture_index]_vars

\* a stealth run waiting for the exit after five interval frames
C15_Witness ==
    /\ mode = "run_stealth" /\ pc = "exit_wait" /\ capture_index = 7
    /\ window # 0 /\ path = FileName(6, AfterStealthLabel)

(***************************************************************************)
(* The parser.                                                             *)
(***************************************************************************)
Indexes(evs) == 1..Len(evs)

\* the non-blank lines of a transcript, stripped, in line order
RECURSIVE NonBlank(_)
NonBlank(ls) ==
    IF ls = <<>> THEN <<>>
    ELSE IF StripLine(Head(ls)) = EmptyLine THEN NonBlank(Tail(ls))
    ELSE <<StripLine(Head(ls))>> \o NonBlank(Tail(ls))

\* C16: every event the parser returns has delta >= 0, also when the
\* declared timestamps go back; a transcript is never rejected for its
\* timestamps: the line an error names is a line that does not parse alone.
C16_DeltaNonNegative ==
    /\ \A k \in Indexes(events) : events[k].delta >= 0
    /\ returned.done =>
          \A k \in Indexes(returned.events) : returned.events[k].delta >= 0
    /\ pending = "ValueError" => ParseLineOf(message.line, 0).raised
    /\ (returned.done /\ Len(returned.events) >= 2) =>
          \A k \in 2..Len(returned.events) :
              returned.events[k].timestamp < returned.events[k - 1].timestamp
                 => returned.events[k].delta = 0

\* three events were returned whose timestamps go down twice
C16_Witness ==
    /\ returned.done /\ Len(returned.events) = 3
    /\ returned.events[1].timestamp = 1000
    /\ returned.events[2].timestamp = 800
    /\ returned.events[3].timestamp = 500
    /\ returned.events[3].delta = 0

C18_DenseIndexes ==
    /\ \A k \in Indexes(events) :
          /\ events[k].index = k - 1
          /\ events[k].raw = NonBlank(SubSeq(lines, 1, idx))[k]
    /\ pc # "parse_raised" =>
          Len(events) = Len(NonBlank(SubSeq(lines, 1, idx)))
    /\ returned.done =>
          /\ Len(returned.events) = Len(NonBlank(lines))
          /\ \A k \in Indexes(returned.events) :
                /\ returned.events[k].index = k - 1
                /\ returned.events[k].raw = NonBlank(lines)[k]

\* two events came out of a transcript with a blank line between them
C18_Witness ==
    /\ returned.done /\ Len(lines) = 3 /\ Len(returned.events) = 2
    /\ StripLine(lines[2]) = EmptyLine /\ lines[2].pad
    /\ returned.events[2].index = 1

\* a line without the "[ +<seconds>s ]" prefix, or with a body that is
\* neither a mouse line, a key line nor an exit line
Malformed(line) ==
    \/ line.stamp # "ok"
    \/ ~(MouseMatch(line.body) \/ KeyMatch(line.body) \/ line.body.phrase)

\* C19: if a non-blank line of the transcript is malformed, the parse of the
\* whole transcript fails with an error naming the first such line, and
\* nothing is returned, not even the events of the lines before it.
C19_MalformedAborts ==
    LET bad == {k \in 1..Len(lines) :
                   /\ StripLine(lines[k]) # EmptyLine
                   /\ Malformed(StripLine(lines[k]))}
    IN  /\ bad # {} =>
              /\ ~returned.done
              /\ returned.events = <<>>
              /\ pc \notin {"parse_return", "parsed"}
              /\ pc = "parse" => \A k \in bad : k > idx
        /\ pc = "parse_raised" =>
              /\ pending = "ValueError"
              /\ idx \in bad /\ \A k \in bad : k >= idx
              /\ message.line = StripLine(lines[idx])
              /\ message.text # ""
              /\ returned = NoResult
        /\ bad = {} => (pc # "parse_raised" /\ pending = "none")

\* the third line is malformed, the two events before it are not returned
C19_Witness ==
    /\ pc = "parse_raised" /\ idx = 3 /\ Len(events) = 2
    /\ message.line = StripLine(lines[3]) /\ ~returned.done

\* a line "[ +<seconds>s ] onMouse(Pressed|Released) <letter>: ..."
IsMouseLine(line) ==
    /\ line.stamp = "ok"
    /\ line.body.head = "onMouse"
    /\ Lower(line.body.state) \in {"pressed", "released"}

\* C20: a mouse line gives a pointer-press event for Pressed and a
\* pointer-release event for Released, with button "left" for L and "right"
\* for R; a mouse line with another button letter is a parse error and
\* yields no event of any kind.
C20_MouseButtons ==
    /\ \A k \in Indexes(events) :
          IsMouseLine(events[k].raw) =>
              /\ Upper(events[k].raw.body.button) \in {"L", "R"}
              /\ events[k].action =
                    (IF Lower(events[k].raw.body.state) = "pressed"
                     THEN "mouse_press" ELSE "mouse_release")
              /\ events[k].button =
                    (IF Upper(events[k].raw.body.button) = "L" THEN "left"
                     ELSE "right")
    /\ \A k \in 1..idx :
          (/\ IsMouseLine(StripLine(lines[k]))
           /\ Upper(StripLine(lines[k]).body.button) \notin {"L", "R"}) =>
              (pc = "parse_raised" /\ k = idx /\ pending = "ValueError")

\* a line "[ +<seconds>s ] onKey(Pressed|Released) <key>: ..." whose key is
\* one of keys
IsKeyLine(line, keys) ==
    /\ line.stamp = "ok"
    /\ line.body.head = "onKey"
    /\ Lower(line.body.state) \in {"pressed", "released"}
    /\ line.body.button \in keys

\* every line read so far that is a key line with a key of keys has given a
\* key-press event for Pressed, a key-release event for Released, with the
\* key as written and without window or world coordinates
KeyLinesGiveKeyEvents(keys) ==
    /\ \A k \in 1..idx :
          IsKeyLine(StripLine(lines[k]), keys) =>
              /\ ~(pc = "parse_raised" /\ idx = k)
              /\ \E j \in Indexes(events) : events[j].raw = StripLine(lines[k])
    /\ \A j \in Indexes(events) :
          IsKeyLine(events[j].raw, keys) =>
              /\ events[j].action =
                    (IF Lower(events[j].raw.body.state) = "pressed"
                     THEN "key_press" ELSE "key_release")
              /\ events[j].button = events[j].raw.body.button
              /\ events[j].window_point = NoPoint
              /\ events[j].world_point = NoPoint

\* C21 as stated: a key line with any single character as its key yields
\* the key event of that character, without coordinates.
C21_KeyLineAnyChar == KeyLinesGiveKeyEvents(KeyChars \cup {";"})

\* C21 amended: a key line whose key is a single letter or digit yields a
\* key-press event for Pressed and a key-release event for Released whose
\* key identifier is that character verbatim, in the case it was written
\* in, and which carries no window or world coordinates whatever its
\* details contain.
C21_KeyLineLetterOrDigit == KeyLinesGiveKeyEvents(KeyChars)

\* a key line with a lower-case key and coordinates among its details was
\* returned as a key-release event
C21_Witness ==
    /\ returned.done
    /\ \E j \in Indexes(returned.events) :
          /\ returned.events[j].action = "key_release"
          /\ returned.events[j].button = "w"
          /\ returned.events[j].raw.body.window = <<10, 10>>
          /\ returned.events[j].window_point = NoPoint

(***************************************************************************)
(* Exit wait, cleanup and the handling of single events.                   *)
(***************************************************************************)
\* C22: the wait for exit ends when the process is no longer running or
\* when the exit timeout has elapsed; it raises nothing and the run goes on
\* to the cleanup; when it ends by the timeout with the process still
\* running, a warning is logged, and the cleanup then requests the
\* termination of the process.
C22_ExitTimeoutWarns ==
    [][/\ (pc \in ExitPcs /\ RunnerStep) =>
             /\ pending' = pending
             /\ pc' \in ExitPcs \cup {"cleanup"}
       /\ (/\ pc \in {"exit_poll", "exit_wait"} /\ RunnerStep
           /\ pc' = "cleanup" /\ process = "running") =>
             /\ now' >= deadline
             /\ "warning" \in Ops(log')
       /\ (pc = "cleanup" /\ RunnerStep /\ process = "running") =>
             /\ pc' = "grace_wait"
             /\ "terminate" \in Ops(log')]_vars

\* the call op is made by this step
Issued(op) == Count(log', op) > Count(log, op)

\* C23: in the cleanup a process that has exited gets neither a terminate
\* nor a kill request; a process that is alive gets the terminate request
\* first, and the kill request is made only after it, only when the grace
\* period of 5 s has elapsed, and only if the process is still alive then.
C23_GracefulThenKill ==
    [][/\ (pc = "cleanup" /\ RunnerStep) =>
             IF process = "running"
             THEN /\ log' = <<[op |-> "terminate", ev |-> event,
                               arg |-> <<>>, ok |-> TRUE]>>
                  /\ deadline' = now + GraceMs
                  /\ pc' = "grace_wait"
             ELSE /\ log' = <<>>
                  /\ pc' = "done"
       /\ Issued("terminate") => (pc = "cleanup" /\ process = "running")
       /\ Issued("kill") =>
             /\ pc = "grace_wait"
             /\ process = "running"
             /\ Count(log, "terminate") = 1
             /\ Count(log, "kill") = 0
             /\ now' >= deadline
             /\ now' >= now + GraceMs
             /\ process' = "killed"
       /\ process' = "killed" => Issued("kill")
       /\ (pc \in CleanupPcs /\ process # "running") =>
             /\ process' = process
             /\ ~Issued("terminate") /\ ~Issued("kill")]_vars

\* the process ignored the terminate request and was killed 5 s later
C23_Witness ==
    /\ pc = "done" /\ process = "killed" /\ now >= deadline
    /\ Len(log) = 2 /\ log[1].op = "terminate" /\ log[2].op = "kill"

OpsInOrder(l) == [k \in 1..Len(l) |-> l[k].op]

\* the sleeps and the capture of an event that injects nothing
QuietOps(e) ==
    (IF e.delta > 0 THEN <<"sleep">> ELSE <<>>)
      \o (IF config.capture_delay > 0 THEN <<"sleep">> ELSE <<>>)
      \o <<"capture">>

\* C25: a key-release event injects nothing, no key and no pointer call;
\* its handling is the delta sleep, the settle delay and one frame.  A
\* key-press event injects the key of the event, once, and nothing else.
C25_KeyReleaseNotInjected ==
    (mode = "run" /\ event >= 1 /\ pc \in EventPcs \cup {"next_event"}) =>
        LET e == events[event]
        IN  /\ e.action = "key_release" =>
                  /\ Ops(log) \cap InjectOps = {}
                  /\ (pc # "event_sleep" /\ e.delta > 0) =>
                        /\ log # <<>>
                        /\ log[1].op = "sleep" /\ log[1].arg = <<e.delta>>
                  /\ pc = "next_event" =>
                        /\ OpsInOrder(log) = QuietOps(e)
                        /\ log[Len(log)].arg = path
                        /\ capture_index = event + 1
            /\ e.action = "key_press" =>
                  /\ Ops(log) \cap (InjectOps \ {"key"}) = {}
                  /\ Count(log, "key") =
                        (IF pc \in {"event_sleep", "event_dispatch"}
                         THEN 0 ELSE 1)
                  /\ \A k \in 1..Len(log) :
                        log[k].op = "key" => log[k].arg = <<e.button>>

\* a key release with a delta was handled: two sleeps and a frame
C25_Witness ==
    /\ mode = "run" /\ pc = "next_event" /\ event = 2
    /\ events[2].action = "key_release" /\ events[2].delta > 0
    /\ config.capture_delay > 0
    /\ OpsInOrder(log) = <<"sleep", "sleep", "capture">>
    /\ events[1].action = "key_press"


\* C26: the close request of an exit event is issued only after the frame
\* of that event was captured, and only for an exit event; a close request
\* that fails raises nothing: the loop goes on to the next event, or to the
\* wait for the exit when the exit event was the last one.
C26_CaptureThenClose ==
    [][/\ \A k \in 1..Len(log') :
             log'[k].op = "close" =>
                 /\ k > 1
                 /\ log'[k - 1].op = "capture"
                 /\ log'[k - 1].arg = path'
                 /\ log'[k - 1].ok
                 /\ events'[event'].action = "exit"
                 /\ Count(log', "capture") = 1
       /\ Count(log', "close") > Count(log, "close") =>
             /\ pc = "event_close" /\ pc' = "next_event"
             /\ pending = "none" /\ pending' = "none"
             /\ paths' = paths
       /\ (/\ pc = "next_event" /\ pc' # pc /\ interrupted' = interrupted
           /\ Count(log, "close") = 1) =>
             pc' = (IF event < total THEN "event_sleep" ELSE "await_exit")
       /\ (pc' = "done" /\ pc # "done") => process' # "running"]_vars

\* the close request of the last event failed and the run waits for the exit
C26_Witness ==
    /\ mode = "run" /\ pc = "next_event" /\ event = total /\ total = 2
    /\ events[event].action = "exit"
    /\ log # <<>>
    /\ log[Len(log)].op = "close" /\ ~log[Len(log)].ok
    /\ pending = "none"


\* the positions of an event at which its input has been injected
InjectedPcs == {"event_path", "event_settle", "event_capture", "next_event"}

\* C27: for a pointer press or release the pointer is moved only when the
\* event has a window-relative coordinate, it is moved to the translation of
\* that coordinate to screen coordinates, before the button action, and one
\* press or release is injected on the button of the event, "left" if it
\* has none.
C27_MoveToTranslated ==
    (/\ mode = "run" /\ event >= 1 /\ pc \in InjectedPcs
     /\ events[event].action \in {"mouse_press", "mouse_release"}) =>
        LET e == events[event]
        IN  /\ Count(log, e.action) = 1
            /\ Count(log, "mouse_press") + Count(log, "mouse_release") = 1
            /\ Count(log, "move") <= 1
            /\ e.window_point = NoPoint => Count(log, "move") = 0
            /\ \A k \in 1..Len(log) :
                  /\ log[k].op = e.action => log[k].arg = <<ButtonOf(e)>>
                  /\ log[k].op = "move" =>
                        /\ e.window_point # NoPoint
                        /\ log[k].arg = MoveArgs(ClientToScreen(e.window_point))
                        /\ k < Len(log)
                        /\ log[k + 1].op = e.action


\* the entries a step adds to the log of the event
Added == SubSeq(log', Len(log) + 1, Len(log'))

\* C28: a backend call of the replay that fails (a pointer move, a button
\* press or release, a key injection, a close request) raises nothing: the
\* handler goes on to the frame of the event, or to the next event after a
\* close request.
C28_BackendFailureRecovered ==
    [][(/\ mode = "run" /\ pc \in {"event_dispatch", "event_close"}
        /\ Len(log') > Len(log)
        /\ \E k \in 1..Len(Added) :
              Added[k].op \in InjectOps /\ ~Added[k].ok) =>
            /\ pending' = "none"
            /\ pc' = (IF pc = "event_close" THEN "next_event"
                      ELSE "event_path")
            /\ event' = event]_vars


\* an exit event was handled before the current event
AfterExit == \E j \in 1..(event - 1) : events[j].action = "exit"

\* C29: the loop does not stop at an exit event: after any event but the
\* last one, an exit event included, the loop takes the next event; an event
\* that follows an exit event is slept for, injected and captured like any
\* other; the wait for the exit starts only when the last event was handled.
C29_LoopPassesExit ==
    [][/\ (mode = "run" /\ pc' = "await_exit" /\ pc # "await_exit") =>
             /\ pc = "next_event"
             /\ event = total /\ Len(events) = total
       /\ (/\ pc = "next_event" /\ pc' \notin {"next_event", "cleanup"}
           /\ event < total) =>
             /\ pc' = "event_sleep"
             /\ event' = event + 1 /\ Len(events') = event + 1
       /\ (/\ mode = "run" /\ pc' = "next_event" /\ pc # "next_event"
           /\ event >= 1 /\ AfterExit) =>
             LET e == events[event]
             IN  /\ Count(log', "capture") = 1
                 /\ capture_index' = event + 1
                 /\ e.delta > 0 =>
                       log'[1].op = "sleep" /\ log'[1].arg = <<e.delta>>
                 /\ e.action = "key_press" => Count(log', "key") = 1
                 /\ e.action \in {"mouse_press", "mouse_release"} =>
                       Count(log', e.action) = 1
                 /\ e.action = "exit" => Count(log', "close") = 1]_vars

\* a pointer press that follows the exit event was injected and captured
C29_Witness ==
    /\ mode = "run" /\ pc = "next_event" /\ event = 2 /\ total = 2
    /\ events[1].action = "exit" /\ events[2].action = "mouse_press"
    /\ Count(log, "mouse_press") = 1 /\ Count(log, "capture") = 1
    /\ capture_index = 3


\* the interval frames requested so far: the after-launch frame has index 0
IntervalFrames == capture_index - 1

\* the largest number of interval frames of the stealth run
FrameBound ==
    CeilDiv(Max(0, stealth.length_ms), Max(1, stealth.delta_ms)) + 1

\* C30: with effective interval I >= 1 ms and duration D >= 0 ms a stealth
\* run captures at most ceil(D / I) + 1 interval frames, whatever the
\* capture latency and the settle delay: the n-th interval frame (n from 0)
\* is captured at start + n * I or later.
C30_IntervalFramesBounded ==
    mode = "run_stealth" =>
        /\ pc \in {"stealth_settle", "stealth_capture"} =>
              /\ next_ts = start + IntervalFrames * interval
              /\ now >= start + IntervalFrames * interval
              /\ IntervalFrames + 1 <= FrameBound
        /\ pc = "stealth_loop" =>
              /\ next_ts = start + IntervalFrames * interval
              /\ IntervalFrames >= 1 =>
                    now >= start + (IntervalFrames - 1) * interval
        /\ pc \in {"stealth_loop", "after_settle", "after_capture"} =>
              /\ IntervalFrames >= 0
              /\ IntervalFrames <= FrameBound
        /\ pc = "await_exit" => capture_index - 2 <= FrameBound

\* the bound is met: interval 50 ms, duration 200 ms, five interval frames
\* and then the after-stealth frame
C30_Witness ==
    /\ mode = "run_stealth" /\ pc = "await_exit"
    /\ stealth = [delta_ms |-> 50, length_ms |-> 200]
    /\ capture_index - 2 = FrameBound /\ FrameBound = 5

====
